---- MODULE Spec2Model ----
(***************************************************************************)
(* The goke dispatch engine (internal/executor.go): dispatch decision from *)
(* the lockfile's stored modification times, hook sequencing around a      *)
(* task's run commands, recursion into task-as-command references, OS      *)
(* commands run by a worker goroutine whose result is awaited, single run  *)
(* and watch loop; the config parser (NewParser, Bootstrap) with its temp   *)
(* file cache and the environment it sets; ParseCommandLine.                *)
(***************************************************************************)
EXTENDS Integers, Sequences, FiniteSets, TLC

\* ------------------------------------------------------------------ bounds
\* modification times range over 0..MaxTime (Unix seconds, abstracted)
MaxTime == 2
\* depth of nested dispatchTask calls the model follows before the Go
\* runtime's stack limit is taken to be hit
MaxDepth == 3
\* longest command string given to ParseCommandLine, in characters
MaxLen == 3

\* ------------------------------------------------------------- constants
DefaultTask == "main"

\* os.Stat returned an error for the path (no FileInfo)
NoFile == -1

Files == {"f1", "f2"}
MTimes == 0..MaxTime
StatResults == MTimes \cup {NoFile}

\* ---------------------------------------------------------------- errors
Nil == [kind |-> "nil", what |-> "", at |-> 0]
\* error delivered by runSysCommand for the n-th started command
CmdErr(c, n) == [kind |-> "cmd", what |-> c, at |-> n]
\* error returned by os.Stat for path f
StatErr(f) == [kind |-> "stat", what |-> f, at |-> 0]

\* Ref[T]: a value or an error
NewRef(v, e) == [val |-> v, err |-> e]

\* ------------------------------------------------------- configurations
MkEvents(bet, ber, aer, aet) ==
    [BeforeEachTask |-> bet, BeforeEachRun |-> ber,
     AfterEachRun |-> aer, AfterEachTask |-> aet]

MkTask(files, run) == [Files |-> files, Run |-> run]

NoEvents == MkEvents(<<>>, <<>>, <<>>, <<>>)

EventChoices ==
    { MkEvents(bet, ber, aer, aet) :
        bet \in {<<>>, <<"T1">>}, ber \in {<<>>, <<"B">>},
        aer \in {<<>>, <<"A">>}, aet \in {<<>>, <<"T2">>} }

\* one task, no files, two commands
TasksPlain == [main |-> MkTask(<<>>, <<"C1", "C2">>)]
\* a run entry names another task
TasksNested ==
    [main |-> MkTask(<<"f1">>, <<"C1", "sub", "C2">>),
     sub  |-> MkTask(<<>>, <<"S1">>)]
\* two declared files
TasksTwoFiles == [main |-> MkTask(<<"f1", "f2">>, <<"C1">>)]
\* a run entry names its own task
TasksSelf == [main |-> MkTask(<<>>, <<"C1", "main">>)]

Configs ==
    { [Events |-> ev, Tasks |-> t] :
        ev \in EventChoices, t \in {TasksPlain, TasksNested, TasksSelf} }
    \cup { [Events |-> NoEvents, Tasks |-> TasksTwoFiles] }
    \cup { [Events |-> MkEvents(<<"T1">>, <<"B">>, <<"A", "sub">>, <<"T2">>),
            Tasks |-> TasksNested] }
    \cup { [Events |-> MkEvents(<<"T1", "T1b">>, <<"B", "Bb">>,
                                <<"A", "Ab">>, <<"T2", "T2b">>),
            Tasks |-> TasksPlain] }

TaskNameInputs == {"", "main", "sub", "nope"}

RECURSIVE SeqRange(_)
SeqRange(s) == IF s = <<>> THEN {} ELSE {Head(s)} \cup SeqRange(Tail(s))

DeclaredFiles(c) ==
    UNION { SeqRange(c.Tasks[t].Files) : t \in DOMAIN c.Tasks }

VARIABLES
    cfg,        \* parser: Tasks and Global.Shared.Events
    options,    \* Options: Force, Watch, Quiet, ClearCache
    mtime,      \* file system: path -> modification time or NoFile
    lock,       \* lockfile: path -> stored timestamp (0 = no entry)
    pc,         \* position of the sequential caller
    task,       \* name of the task Start resolved ("" before initTask)
    dispatch,   \* Ref[bool] received in shouldDispatch, then its result
    scanner,    \* shouldDispatchRoutine goroutine
    stack,      \* active dispatchTask calls, innermost last
    inflight,   \* runSysCommand goroutines that have not delivered yet
    trace,      \* commands started in the current cycle, in order
    ret,        \* what checkAndDispatch returned
    exit,       \* how the process ended, "running" while it has not
    seen,       \* modification times os.Stat reported in this cycle
    lock0,      \* lockfile contents when the cycle began
    dispatched, \* dispatchTask(task, true) was called in this cycle
    firstErr,   \* first error a command of this cycle delivered
    \* --- successive process runs over one lockfile
    pending,    \* tasks with a declared file modified since their last dispatch
    \* --- ParseCommandLine
    command,    \* the command string, one character per element
    splitCmd,   \* what ParseCommandLine returned for it
    pcT,        \* "input" before the call, "done" after
    \* --- the config parser
    doc,        \* content of the YAML config file
    confMtime,  \* modification time of the config file
    clock,      \* wall clock, seconds
    cache,      \* the temp file holding the serialized parser, or NoCache
    parserString, \* package variable: what NewParser read from the temp file
    p,          \* the Parser value
    env,        \* environment of the running goke process
    pcP,        \* position of main: NewParser, Bootstrap, dispatch
    did,        \* what this run's NewParser and Bootstrap did
    cache0,     \* the temp file as NewParser found it
    child       \* environment the spawned child process was given

\* the dispatch engine's state
evars == <<cfg, options, mtime, lock, pc, task, dispatch, scanner, stack,
           inflight, trace, ret, exit, seen, lock0, dispatched, firstErr>>
rvars == <<pending>>
tvars == <<command, splitCmd, pcT>>
pvars == <<doc, confMtime, clock, cache, parserString, p, env, pcP, did,
           cache0, child>>

vars == <<evars, rvars, tvars, pvars>>

\* ------------------------------------------------------ ParseCommandLine
\* characters a command string is made of
Chars == {"a", " ", "\t", "\"", "'", "\\"}

RECURSIVE SeqsUpTo(_, _)
SeqsUpTo(S, n) ==
    IF n = 0 THEN {<<>>}
    ELSE LET shorter == SeqsUpTo(S, n - 1)
         IN  shorter \cup { Append(q, c) : q \in shorter, c \in S }

\* echo "a b" c
Example ==
    <<"e", "c", "h", "o", " ", "\"", "a", " ", "b", "\"", " ", "c">>

Commands == SeqsUpTo(Chars, MaxLen) \cup {Example}

\* the locals of ParseCommandLine before its loop
ScanStart ==
    [state |-> "start", current |-> <<>>, quote |-> "\"",
     escapeNext |-> TRUE, args |-> <<>>]

\* one iteration of the loop, on character c
ScanChar(s, c) ==
    IF s.state = "quotes" THEN
        IF c # s.quote
        THEN [s EXCEPT !.current = Append(@, c)]
        ELSE [s EXCEPT !.args = Append(@, s.current), !.current = <<>>,
                       !.state = "start"]
    ELSE IF s.escapeNext THEN
        [s EXCEPT !.current = Append(@, c), !.escapeNext = FALSE]
    ELSE IF c = "\\" THEN
        [s EXCEPT !.escapeNext = TRUE]
    ELSE IF c \in {"\"", "'"} THEN
        [s EXCEPT !.state = "quotes", !.quote = c]
    ELSE IF s.state = "arg" THEN
        IF c \in {" ", "\t"}
        THEN [s EXCEPT !.args = Append(@, s.current), !.current = <<>>,
                       !.state = "start"]
        ELSE [s EXCEPT !.current = Append(@, c)]
    ELSE IF c \notin {" ", "\t"} THEN
        [s EXCEPT !.state = "arg", !.current = Append(@, c)]
    ELSE s

RECURSIVE Scan(_, _, _)
Scan(cmd, i, s) ==
    IF i > Len(cmd) THEN s ELSE Scan(cmd, i + 1, ScanChar(s, cmd[i]))

\* ([]string, error): err is the "unclosed quote" error
ParseCommandLine(cmd) ==
    LET s == Scan(cmd, 1, ScanStart)
    IN  IF s.state = "quotes" THEN [args |-> <<>>, err |-> TRUE]
        ELSE [args |-> IF s.current # <<>> THEN Append(s.args, s.current)
                       ELSE s.args,
              err |-> FALSE]

\* ------------------------------------------------------ the config parser
\* names of environment variables
Names == {"FOO", "BAR"}

EmptyMap == <<>>

\* process environment in which none of Names is set
NoEnv == [n \in Names |-> ""]

\* os.Getenv: the empty string for a variable that is not set
Getenv(e, n) == IF n \in DOMAIN e THEN e[n] ELSE ""

SetenvDropped(e, k, v) == e
Setenv(e, k, v) == [e EXCEPT ![k] = v]

\* a YAML string value: literal text, or "$(cmd)" when cmd is not empty
Lit(text) == [text |-> text, cmd |-> ""]
Sub(cmd) == [text |-> "", cmd |-> cmd]

\* $(t): a command that prints "out"; $(f): a command that fails;
\* $(t '): a command line with an unclosed quote
CmdOk == Sub("t")
CmdFail == Sub("f")
CmdBad == Sub("t '")

\* the characters of the strings that are read as command lines
Bytes(str) ==
    CASE str = "t" -> <<"t">>
      [] str = "f" -> <<"f">>
      [] str = "t '" -> <<"t", " ", "'">>
      [] str = "FOO" -> <<"F", "O", "O">>
      [] str = "BAR" -> <<"B", "A", "R">>
      [] OTHER -> <<>>

\* a files or run entry: text followed by at most one $(sub) token
Entry(pre, sub) == [pre |-> pre, sub |-> sub]

\* all functions from a subset of K to V: map[string]string
Maps(K, V) == UNION { [D -> V] : D \in SUBSET K }

Docs ==
    { [yamlOK |-> TRUE, genv |-> g, tenv |-> t, file |-> f, run |-> r] :
        g \in Maps(Names, {Lit("v"), CmdOk, CmdFail}),
        t \in Maps({"FOO"}, {Lit("w"), CmdBad}),
        f \in {Entry("f1", ""), Entry("f", "FOO")},
        r \in {Entry("echo ", ""), Entry("echo ", "FOO"), Entry("echo ", "t")} }
    \cup { [yamlOK |-> FALSE, genv |-> EmptyMap, tenv |-> EmptyMap,
            file |-> Entry("f1", ""), run |-> Entry("echo ", "")] }

\* the orders in which a range loop may visit the keys of a map
Orders(m) ==
    { o \in [1..Cardinality(DOMAIN m) -> DOMAIN m] :
        \A i, j \in DOMAIN o : o[i] = o[j] => i = j }

\* exec.Command(argv[0], argv[1:]...).Output()
Output(argv) ==
    IF argv[1] = <<"t">> THEN [out |-> "out\n", err |-> FALSE]
    ELSE [out |-> "", err |-> TRUE]

TrimSpace(str) == IF str = "out\n" THEN "out" ELSE str

\* second result of parseSystemCmd: the text inside $( ), empty if none
parseSystemCmd(v) == v.cmd

RECURSIVE setEnvFrom(_, _, _, _, _, _)
setEnvFrom(vs, order, i, retVars, e, fx) ==
    IF i > Len(order) THEN [vars |-> retVars, err |-> FALSE, env |-> e, fx |-> fx]
    ELSE
      LET k == order[i]
          cmd == parseSystemCmd(vs[k])
          sp == ParseCommandLine(Bytes(cmd))
          o == Output(sp.args)
          outStr == TrimSpace(o.out)
      IN  IF cmd = "" THEN
              setEnvFrom(vs, order, i + 1, (k :> vs[k].text) @@ retVars,
                         Setenv(e, k, vs[k].text), fx \cup {"setenv"})
          ELSE IF sp.err THEN
              [vars |-> retVars, err |-> TRUE, env |-> e, fx |-> fx]
          ELSE IF o.err THEN
              [vars |-> retVars, err |-> TRUE, env |-> e,
               fx |-> fx \cup {"exec"}]
          ELSE
              setEnvFrom(vs, order, i + 1, (k :> outStr) @@ retVars,
                         Setenv(e, k, outStr), fx \cup {"exec", "setenv"})

\* setEnvVariables, the range loop visiting the keys in the given order
setEnvVariables(vs, order, e) == setEnvFrom(vs, order, 1, EmptyMap, e, {})

\* replaceEnvironmentVariables: the string with its $(sub) token replaced
replaceByCommandOutput(entry, e) ==
    IF entry.sub = "" THEN <<entry.pre, "">>
    ELSE <<entry.pre,
           TrimSpace(Output(ParseCommandLine(Bytes(entry.sub)).args).out)>>
replaceEnvironmentVariables(entry, e) ==
    IF entry.sub = "" THEN <<entry.pre, "">>
    ELSE <<entry.pre, Getenv(e, entry.sub)>>

\* paths that exist as regular files
OnDisk == {<<"f1", "">>, <<"f", "v">>}

\* expandFilePaths for a pattern without "*"
expandFilePaths(file) == IF file \in OnDisk THEN <<file>> ELSE <<>>

\* Parser{}: config is unexported, the other fields are what gob encodes
BlankDoc ==
    [yamlOK |-> TRUE, genv |-> EmptyMap, tenv |-> EmptyMap,
     file |-> Entry("f1", ""), run |-> Entry("echo ", "")]

BlankParser ==
    [config |-> BlankDoc, Global |-> [Environment |-> EmptyMap],
     FilePaths |-> <<>>, Tasks |-> EmptyMap]

Exported(pp) ==
    [Global |-> pp.Global, FilePaths |-> pp.FilePaths, Tasks |-> pp.Tasks]

\* the zero value of a string
EmptyString == [empty |-> TRUE, gob |-> Exported(BlankParser)]

GOBSerialize(pp) == [empty |-> FALSE, gob |-> Exported(pp)]

\* decodes into the shell: fields gob does not carry keep the shell's value
GOBDeserialize(str, shell) ==
    [shell EXCEPT !.Global = str.gob.Global,
                  !.FilePaths = str.gob.FilePaths,
                  !.Tasks = str.gob.Tasks]

NoCache == [exists |-> FALSE, content |-> EmptyString, mtime |-> 0]

shouldClearCacheOnlyWhenAsked(c, opts, configModTime) ==
    opts.ClearCache /\ c.exists
shouldClearCache(c, opts, configModTime) ==
    IF opts.ClearCache /\ c.exists THEN TRUE
    ELSE IF ~opts.ClearCache /\ c.exists THEN c.mtime < configModTime
    ELSE FALSE

parseGlobal(pp, order, e) ==
    IF ~pp.config.yamlOK
    THEN [p |-> pp, err |-> TRUE, env |-> e, fx |-> {"parseGlobal"}]
    ELSE LET r == setEnvVariables(pp.config.genv, order, e)
         IN  [p |-> IF r.err THEN pp
                    ELSE [pp EXCEPT !.Global = [Environment |-> r.vars]],
              err |-> FALSE, env |-> r.env,
              fx |-> r.fx \cup {"parseGlobal"}]

parseTasks(pp, order, e) ==
    IF ~pp.config.yamlOK
    THEN [p |-> pp, err |-> TRUE, env |-> e, fx |-> {"parseTasks"}]
    ELSE
      LET d == pp.config
          filePaths == expandFilePaths(replaceEnvironmentVariables(d.file, e))
          run == replaceEnvironmentVariables(d.run, e)
          r == IF DOMAIN d.tenv # {}
               THEN setEnvVariables(d.tenv, order, e)
               ELSE [vars |-> d.tenv, err |-> FALSE, env |-> e, fx |-> {}]
          c == [Name |-> "main", Files |-> filePaths, Run |-> <<run>>,
                Env |-> r.vars]
      IN  [p |-> IF r.err THEN pp
                 ELSE [pp EXCEPT !.FilePaths = filePaths,
                                 !.Tasks = [main |-> c]],
           err |-> r.err, env |-> r.env,
           fx |-> r.fx \cup {"parseTasks", "expand", "replace"}]

\* the config parser is not running
ParserIdle ==
    /\ doc = BlankDoc
    /\ confMtime = 0
    /\ clock = 0
    /\ cache = NoCache
    /\ parserString = EmptyString
    /\ p = BlankParser
    /\ env = NoEnv
    /\ pcP = "new"
    /\ did = {}
    /\ cache0 = NoCache
    /\ child = NoEnv

NoSplit == [args |-> <<>>, err |-> FALSE]

\* no command string is being split
TokIdle ==
    /\ command = <<>>
    /\ splitCmd = NoSplit
    /\ pcT = "input"

\* a single process run: nothing is tracked across runs
RunsIdle == pending = {}

NoRet == [did |-> FALSE, err |-> Nil]

Init ==
    /\ cfg \in Configs
    /\ options \in [Force : BOOLEAN, Watch : BOOLEAN, Quiet : BOOLEAN,
                    ClearCache : {FALSE}]
    /\ mtime \in [Files -> StatResults]
    /\ \A f \in Files \ DeclaredFiles(cfg) : mtime[f] = NoFile
    /\ lock \in [Files -> MTimes]
    /\ \A f \in Files \ DeclaredFiles(cfg) : lock[f] = 0
    /\ pc = "start"
    /\ task = ""
    /\ dispatch = NewRef(FALSE, Nil)
    /\ scanner = "idle"
    /\ stack = <<>>
    /\ inflight = {}
    /\ trace = <<>>
    /\ ret = NoRet
    /\ exit = "running"
    /\ seen = mtime
    /\ lock0 = lock
    /\ dispatched = FALSE
    /\ firstErr = Nil
    /\ RunsIdle
    /\ TokIdle
    /\ ParserIdle

\* ------------------------------------------------------------- Start
\* logExit: how the process ends, "running" when logExit returns. Only the
\* spinner calls depend on Quiet; os.Exit is outside the `if`.
LogExitOnlyWhenLoud(status, quiet) ==
    IF quiet THEN "running"
    ELSE CASE status = "success" -> "exit0"
           [] status = "error" -> "exit1"
           [] OTHER -> "running"
LogExit(status, quiet) ==
    CASE status = "success" -> "exit0"
      [] status = "error" -> "exit1"
      [] OTHER -> "running"

\* Start + initTask + mustExist: resolve the task name, exit(1) if the
\* task table has no such task (task stays "", the zero Task, should
\* logExit return).
Start(taskName) ==
    /\ pc = "start"
    /\ exit = "running"
    /\ LET arg == IF taskName # "" THEN taskName ELSE DefaultTask IN
         IF arg \in DOMAIN cfg.Tasks
           THEN /\ task' = arg
                /\ pc' = "check"
                /\ exit' = exit
           ELSE /\ task' = task
                /\ exit' = LogExit("error", options.Quiet)
                /\ pc' = IF exit' = "running" THEN "check" ELSE "exited"
    /\ UNCHANGED <<cfg, options, mtime, lock, dispatch, scanner, stack,
                   inflight, trace, ret, seen, lock0, dispatched, firstErr>>

\* ------------------------------------------------- dispatch decision
\* the comparison of the stored timestamp with the file's mtime
ChangedOrEqual(stored, now) == stored <= now
Changed(stored, now) == stored < now

\* a scan that takes a path it cannot stat as changed
RECURSIVE ScanFromMissingAsChanged(_, _, _, _)
ScanFromMissingAsChanged(files, k, lockedModTimes, mt) ==
    IF k > Len(files) THEN NewRef(FALSE, Nil)
    ELSE IF mt[files[k]] = NoFile THEN NewRef(TRUE, Nil)
    ELSE IF Changed(lockedModTimes[files[k]], mt[files[k]])
         THEN NewRef(TRUE, Nil)
    ELSE ScanFromMissingAsChanged(files, k + 1, lockedModTimes, mt)

\* shouldDispatchRoutine: the Ref it sends first, scanning files from k
RECURSIVE ScanFrom(_, _, _, _)
ScanFrom(files, k, lockedModTimes, mt) ==
    IF k > Len(files) THEN NewRef(FALSE, Nil)
    ELSE IF mt[files[k]] = NoFile THEN NewRef(FALSE, StatErr(files[k]))
    ELSE IF Changed(lockedModTimes[files[k]], mt[files[k]])
         THEN NewRef(TRUE, Nil)
    ELSE ScanFrom(files, k + 1, lockedModTimes, mt)

\* Lockfile.GetCurrentProject: the stored timestamps of the project
GetCurrentProject == lock

\* Lockfile.UpdateTimestampsForFiles: every given path that can be stat'd
\* gets its current modification time
UpdateTimestampsForFiles(lk, files, mt) ==
    [f \in Files |->
        IF f \in SeqRange(files) /\ mt[f] # NoFile THEN mt[f] ELSE lk[f]]

\* task.Files of the task Start resolved
TaskFiles == IF task = "" THEN <<>> ELSE cfg.Tasks[task].Files

\* shouldDispatch up to the receive from dispatchCh: no files, no scan;
\* otherwise the routine scans and the caller receives its first Ref.
\* After sending an error the routine has not returned.
ShouldDispatchScan ==
    /\ pc = "check"
    /\ exit = "running"
    /\ seen' = mtime
    /\ lock0' = lock
    /\ IF Len(TaskFiles) = 0
         THEN /\ dispatch' = NewRef(TRUE, Nil)
              /\ scanner' = scanner
         ELSE /\ dispatch' = ScanFrom(TaskFiles, 1, GetCurrentProject, mtime)
              /\ scanner' = IF dispatch'.err # Nil THEN "afterSend" ELSE "idle"
    /\ pc' = "scanned"
    /\ UNCHANGED <<cfg, options, mtime, lock, task, stack, inflight, trace,
                   ret, exit, dispatched, firstErr>>

\* shouldDispatch after the receive, leaving the lockfile as it is
ShouldDispatchReturnNoStore ==
    /\ pc = "scanned"
    /\ exit = "running"
    /\ pc' = "decided"
    /\ UNCHANGED <<cfg, options, mtime, lock, task, dispatch, scanner, stack,
                   inflight, trace, ret, exit, seen, lock0, dispatched,
                   firstErr>>

\* shouldDispatch after the receive: the lockfile is updated when the
\* routine reported a change; the result goes back to checkAndDispatch.
ShouldDispatchReturn ==
    /\ pc = "scanned"
    /\ exit = "running"
    /\ IF Len(TaskFiles) # 0 /\ dispatch.err = Nil /\ dispatch.val
         THEN /\ lock' = UpdateTimestampsForFiles(lock, TaskFiles, mtime)
              /\ seen' = mtime
         ELSE UNCHANGED <<lock, seen>>
    /\ pc' = "decided"
    /\ UNCHANGED <<cfg, options, mtime, task, dispatch, scanner, stack,
                   inflight, trace, ret, exit, lock0, dispatched, firstErr>>

\* the routine after its error send: fo is nil, fo.ModTime() panics and
\* the runtime ends the process
ScanPanic ==
    /\ scanner = "afterSend"
    /\ exit = "running"
    /\ exit' = "panic"
    /\ pc' = "exited"
    /\ UNCHANGED <<cfg, options, mtime, lock, task, dispatch, scanner, stack,
                   inflight, trace, ret, seen, lock0, dispatched, firstErr>>

\* ---------------------------------------------------------- dispatchTask
\* a dispatchTask call: which loop it is in (ph), the index into task.Run
\* (i) and the index into the hook list of that loop (j)
NewFrame(t, initialRun) ==
    [task |-> t, init |-> initialRun, ph |-> "bet", i |-> 1, j |-> 1]

\* the hook list each loop of dispatchTask ranges over
HookListSwapped(ph) ==
    CASE ph = "bet" -> cfg.Events.BeforeEachTask
      [] ph = "ber" -> cfg.Events.AfterEachRun
      [] ph = "aer" -> cfg.Events.BeforeEachRun
      [] ph = "aet" -> cfg.Events.AfterEachTask
      [] OTHER -> <<>>
HookList(ph) ==
    CASE ph = "bet" -> cfg.Events.BeforeEachTask
      [] ph = "ber" -> cfg.Events.BeforeEachRun
      [] ph = "aer" -> cfg.Events.AfterEachRun
      [] ph = "aet" -> cfg.Events.AfterEachTask
      [] OTHER -> <<>>

\* whether a hook loop is entered: the three `if initialRun` guards; the
\* after_each_task loop has none
HookApplies(ph, initialRun) == IF ph = "aet" THEN TRUE ELSE initialRun

\* the position of the next command of a call, from a candidate position
RECURSIVE Norm(_)
Norm(f) ==
    LET run == cfg.Tasks[f.task].Run
        inHooks == HookApplies(f.ph, f.init) /\ f.j <= Len(HookList(f.ph))
    IN CASE f.ph = "bet" ->
              IF inHooks THEN f
              ELSE Norm([f EXCEPT !.ph = "ber", !.i = 1, !.j = 1])
         [] f.ph = "ber" ->
              IF f.i > Len(run) THEN Norm([f EXCEPT !.ph = "aet", !.j = 1])
              ELSE IF inHooks THEN f
              ELSE [f EXCEPT !.ph = "main", !.j = 1]
         [] f.ph = "aer" ->
              IF inHooks THEN f
              ELSE Norm([f EXCEPT !.ph = "ber", !.i = f.i + 1, !.j = 1])
         [] f.ph = "aet" ->
              IF inHooks THEN f
              ELSE [f EXCEPT !.ph = "done", !.i = 0, !.j = 0]
         [] OTHER -> f

\* the position after the current command returned nil
Step(f) ==
    IF f.ph = "main" THEN Norm([f EXCEPT !.ph = "aer", !.j = 1])
    ELSE Norm([f EXCEPT !.j = f.j + 1])

\* the command string a call is at
CurCmd(f) ==
    IF f.ph = "main" THEN cfg.Tasks[f.task].Run[f.i] ELSE HookList(f.ph)[f.j]

\* `if err != nil { return err }` after every runSysOrRecurse call
ReturnsOnErrExceptAfterHooks(f, r) == r # Nil /\ f.ph \notin {"aer", "aet"}
ReturnsOnErr(f, r) == r # Nil

\* the innermost call of stk got r back from runSysOrRecurse: calls return
\* (an error to the caller's check, or nil at their end) until one has a
\* next command; with no call left, err is what the first call returned
RECURSIVE Resume(_, _)
Resume(stk, r) ==
    IF stk = <<>> THEN [stack |-> <<>>, err |-> r]
    ELSE LET top == stk[Len(stk)]
             rest == SubSeq(stk, 1, Len(stk) - 1)
         IN IF ReturnsOnErr(top, r) THEN Resume(rest, r)
            ELSE LET nf == Step(top)
                 IN IF nf.ph = "done" THEN Resume(rest, Nil)
                    ELSE [stack |-> Append(rest, nf), err |-> Nil]

\* dispatchTask(t, initialRun) called with stk the calls below it
Call(stk, t, initialRun) ==
    LET nf == Norm(NewFrame(t, initialRun))
    IN IF nf.ph = "done" THEN Resume(stk, Nil)
       ELSE [stack |-> Append(stk, nf), err |-> Nil]

\* what checkAndDispatch returns once dispatchTask returned r
AfterDispatch(r) == [did |-> r = Nil, err |-> r]

\* `if shouldDispatch || e.options.Force`
ShouldRunIgnoringForce(shouldDispatch, force) == shouldDispatch
ShouldRun(shouldDispatch, force) == shouldDispatch \/ force

\* checkAndDispatch after shouldDispatch returned
CheckAndDispatch ==
    /\ pc = "decided"
    /\ exit = "running"
    /\ IF dispatch.err # Nil
         THEN /\ ret' = [did |-> FALSE, err |-> dispatch.err]
              /\ pc' = "returned"
              /\ UNCHANGED <<stack, dispatched>>
         ELSE IF ShouldRun(dispatch.val, options.Force)
         THEN LET c == Call(<<>>, task, TRUE)
              IN /\ dispatched' = TRUE
                 /\ stack' = c.stack
                 /\ IF c.stack = <<>>
                      THEN /\ ret' = AfterDispatch(c.err)
                           /\ pc' = "returned"
                      ELSE /\ ret' = ret
                           /\ pc' = "run"
         ELSE /\ ret' = [did |-> FALSE, err |-> Nil]
              /\ pc' = "returned"
              /\ UNCHANGED <<stack, dispatched>>
    /\ UNCHANGED <<cfg, options, mtime, lock, task, dispatch, scanner,
                   inflight, trace, exit, seen, lock0, firstErr>>

Top == stack[Len(stack)]

\* runSysOrRecurse, the command names a task: dispatchTask(task, false).
\* A call chain deeper than the runtime's stack allows ends the process.
Recurse ==
    /\ pc = "run"
    /\ exit = "running"
    /\ stack # <<>>
    /\ CurCmd(Top) \in DOMAIN cfg.Tasks
    /\ IF Len(stack) >= MaxDepth
         THEN /\ exit' = "overflow"
              /\ pc' = "exited"
              /\ UNCHANGED <<stack, ret>>
         ELSE LET c == Call(stack, CurCmd(Top), FALSE)
              IN /\ stack' = c.stack
                 /\ exit' = exit
                 /\ IF c.stack = <<>>
                      THEN /\ ret' = AfterDispatch(c.err)
                           /\ pc' = "returned"
                      ELSE /\ ret' = ret
                           /\ pc' = "run"
    /\ UNCHANGED <<cfg, options, mtime, lock, task, dispatch, scanner,
                   inflight, trace, seen, lock0, dispatched, firstErr>>

\* where the caller is after `go e.runSysCommand(cmd, *ch)`: at the
\* receive `output := <-*ch`
PcAfterSpawnNoReceive == "run"
PcAfterSpawn == "recv"

\* runSysOrRecurse, the command is an OS command: start the worker
SpawnSysCommand ==
    /\ pc = "run"
    /\ exit = "running"
    /\ stack # <<>>
    /\ CurCmd(Top) \notin DOMAIN cfg.Tasks
    /\ trace' = Append(trace, [cmd |-> CurCmd(Top), depth |-> Len(stack),
                               ph |-> Top.ph, task |-> Top.task])
    /\ inflight' = inflight \cup {Len(trace) + 1}
    /\ pc' = PcAfterSpawn
    /\ UNCHANGED <<cfg, options, mtime, lock, task, dispatch, scanner, stack,
                   ret, exit, seen, lock0, dispatched, firstErr>>

\* runSysCommand delivers its Ref (output or error) and the caller, blocked
\* on the channel, receives it and goes on
RunSysCommand(w, ok) ==
    /\ pc = "recv"
    /\ exit = "running"
    /\ w \in inflight
    /\ inflight' = inflight \ {w}
    /\ LET r == IF ok THEN Nil ELSE CmdErr(trace[w].cmd, w)
           c == Resume(stack, r)
       IN /\ firstErr' = IF r # Nil /\ firstErr = Nil THEN r ELSE firstErr
          /\ stack' = c.stack
          /\ IF c.stack = <<>>
               THEN /\ ret' = AfterDispatch(c.err)
                    /\ pc' = "returned"
               ELSE /\ ret' = ret
                    /\ pc' = "run"
    /\ UNCHANGED <<cfg, options, mtime, lock, task, dispatch, scanner, trace,
                   exit, seen, lock0, dispatched>>

\* ------------------------------------------------------ execute / watch
\* execute after checkAndDispatch returned: logErr exits 1, "Nothing to
\* run" exits 0, otherwise Start returns
Execute ==
    /\ pc = "returned"
    /\ exit = "running"
    /\ ~options.Watch
    /\ exit' = IF ret.err # Nil THEN LogExit("error", options.Quiet)
               ELSE IF ~ret.did THEN LogExit("success", options.Quiet)
               ELSE exit
    /\ pc' = IF exit' = "running" THEN "done" ELSE "exited"
    /\ UNCHANGED <<cfg, options, mtime, lock, task, dispatch, scanner, stack,
                   inflight, trace, ret, seen, lock0, dispatched, firstErr>>

\* watch after checkAndDispatch returned: its results are dropped, the
\* goroutine sleeps one second and signals, the loop starts the next
\* iteration. A routine left after its error send runs within that second.
WatchNext ==
    /\ pc = "returned"
    /\ exit = "running"
    /\ options.Watch
    /\ scanner = "idle"
    /\ pc' = "check"
    /\ dispatch' = NewRef(FALSE, Nil)
    /\ trace' = <<>>
    /\ ret' = NoRet
    /\ seen' = mtime
    /\ lock0' = lock
    /\ dispatched' = FALSE
    /\ firstErr' = Nil
    /\ UNCHANGED <<cfg, options, mtime, lock, task, scanner, stack, inflight,
                   exit>>

\* --------------------------------------------------------- environment
\* a declared file is written, replaced or removed: between cycles and
\* while a command runs
Touch(f, t) ==
    /\ pc \in {"check", "recv"}
    /\ exit = "running"
    /\ f \in DeclaredFiles(cfg)
    /\ t # mtime[f]
    /\ mtime' = [mtime EXCEPT ![f] = t]
    /\ UNCHANGED <<cfg, options, lock, pc, task, dispatch, scanner, stack,
                   inflight, trace, ret, exit, seen, lock0, dispatched,
                   firstErr>>

\* everything but the dispatch engine
others == <<rvars, tvars, pvars>>

Next ==
    \/ (\E n \in TaskNameInputs : Start(n)) /\ UNCHANGED others
    \/ ShouldDispatchScan /\ UNCHANGED others
    \/ ShouldDispatchReturn /\ UNCHANGED others
    \/ ScanPanic /\ UNCHANGED others
    \/ CheckAndDispatch /\ UNCHANGED others
    \/ Recurse /\ UNCHANGED others
    \/ SpawnSysCommand /\ UNCHANGED others
    \/ (\E w \in inflight, ok \in BOOLEAN : RunSysCommand(w, ok))
          /\ UNCHANGED others
    \/ Execute /\ UNCHANGED others
    \/ WatchNext /\ UNCHANGED others
    \/ (\E f \in Files, t \in StatResults : Touch(f, t))
          /\ UNCHANGED others

Spec == Init /\ [][Next]_vars

\* no flag given on the command line
DefaultOptions ==
    [Force |-> FALSE, Watch |-> FALSE, Quiet |-> FALSE, ClearCache |-> FALSE]

\* the dispatch engine's state but the options
xvars == <<cfg, mtime, lock, pc, task, dispatch, scanner, stack, inflight,
           trace, ret, exit, seen, lock0, dispatched, firstErr>>

\* the dispatch engine is not running
ExecIdle ==
    /\ cfg = [Events |-> NoEvents, Tasks |-> TasksPlain]
    /\ mtime = [f \in Files |-> NoFile]
    /\ lock = [f \in Files |-> 0]
    /\ pc = "start"
    /\ task = ""
    /\ dispatch = NewRef(FALSE, Nil)
    /\ scanner = "idle"
    /\ stack = <<>>
    /\ inflight = {}
    /\ trace = <<>>
    /\ ret = NoRet
    /\ exit = "running"
    /\ seen = mtime
    /\ lock0 = lock
    /\ dispatched = FALSE
    /\ firstErr = Nil

\* ----------------------------- successive runs over one lockfile
\* two tasks declare the same file; two tasks declare a file each
TasksShared ==
    [main |-> MkTask(<<"f1">>, <<"C1">>), sub |-> MkTask(<<"f1">>, <<"S1">>)]
TasksApart ==
    [main |-> MkTask(<<"f1">>, <<"C1">>), sub |-> MkTask(<<"f2">>, <<"S1">>)]

\* the tasks that declare file f
Declaring(f) == { x \in DOMAIN cfg.Tasks : f \in SeqRange(cfg.Tasks[x].Files) }

\* every declared file exists and the lockfile holds its modification
\* time: each task was dispatched after the last change of its files
InitRuns ==
    /\ cfg \in { [Events |-> NoEvents, Tasks |-> t] :
                   t \in {TasksShared, TasksApart} }
    /\ options = DefaultOptions
    /\ mtime \in [Files -> MTimes]
    /\ lock = mtime
    /\ pending = {}
    /\ pc = "start"
    /\ task = ""
    /\ dispatch = NewRef(FALSE, Nil)
    /\ scanner = "idle"
    /\ stack = <<>>
    /\ inflight = {}
    /\ trace = <<>>
    /\ ret = NoRet
    /\ exit = "running"
    /\ seen = mtime
    /\ lock0 = lock
    /\ dispatched = FALSE
    /\ firstErr = Nil
    /\ TokIdle
    /\ ParserIdle

\* checkAndDispatch; a task that is dispatched has no change pending
CheckAndDispatchRun ==
    /\ CheckAndDispatch
    /\ pending' = IF dispatched' THEN pending \ {task} ELSE pending

\* a declared file is written at a later time
Write(f, t) ==
    /\ Touch(f, t)
    /\ t # NoFile
    /\ t > mtime[f]
    /\ pending' = pending \cup Declaring(f)

\* the process is over and goke is started again in the same directory
Restart ==
    /\ pc \in {"done", "exited"}
    /\ pc' = "start"
    /\ task' = ""
    /\ dispatch' = NewRef(FALSE, Nil)
    /\ scanner' = "idle"
    /\ stack' = <<>>
    /\ inflight' = {}
    /\ trace' = <<>>
    /\ ret' = NoRet
    /\ exit' = "running"
    /\ seen' = mtime
    /\ lock0' = lock
    /\ dispatched' = FALSE
    /\ firstErr' = Nil
    /\ UNCHANGED <<cfg, options, mtime, lock, pending>>

\* single runs, no watch loop; files are written, never removed, and no
\* run entry names a task
NextRuns ==
    \/ (\E n \in TaskNameInputs : Start(n)) /\ UNCHANGED <<pending, tvars, pvars>>
    \/ ShouldDispatchScan /\ UNCHANGED <<pending, tvars, pvars>>
    \/ ShouldDispatchReturn /\ UNCHANGED <<pending, tvars, pvars>>
    \/ CheckAndDispatchRun /\ UNCHANGED <<tvars, pvars>>
    \/ SpawnSysCommand /\ UNCHANGED <<pending, tvars, pvars>>
    \/ (\E w \in inflight, ok \in BOOLEAN : RunSysCommand(w, ok))
          /\ UNCHANGED <<pending, tvars, pvars>>
    \/ Execute /\ UNCHANGED <<pending, tvars, pvars>>
    \/ (\E f \in Files, t \in MTimes : Write(f, t)) /\ UNCHANGED <<tvars, pvars>>
    \/ Restart /\ UNCHANGED <<tvars, pvars>>

SpecRuns == InitRuns /\ [][NextRuns]_vars

\* ------------------------------------------------------ the watch loop
\* goke --watch without --force; no iteration has dispatched a task yet
InitWatch ==
    /\ cfg \in Configs
    /\ options \in [Force : {FALSE}, Watch : {TRUE}, Quiet : BOOLEAN,
                    ClearCache : {FALSE}]
    /\ mtime \in [Files -> StatResults]
    /\ \A f \in Files \ DeclaredFiles(cfg) : mtime[f] = NoFile
    /\ lock \in [Files -> MTimes]
    /\ \A f \in Files \ DeclaredFiles(cfg) : lock[f] = 0
    /\ pending = DOMAIN cfg.Tasks
    /\ pc = "start"
    /\ task = ""
    /\ dispatch = NewRef(FALSE, Nil)
    /\ scanner = "idle"
    /\ stack = <<>>
    /\ inflight = {}
    /\ trace = <<>>
    /\ ret = NoRet
    /\ exit = "running"
    /\ seen = mtime
    /\ lock0 = lock
    /\ dispatched = FALSE
    /\ firstErr = Nil
    /\ TokIdle
    /\ ParserIdle

\* a declared file is written, replaced or removed
Modify(f, t) ==
    /\ Touch(f, t)
    /\ pending' = pending \cup Declaring(f)

NextWatch ==
    \/ (\E n \in TaskNameInputs : Start(n)) /\ UNCHANGED <<pending, tvars, pvars>>
    \/ ShouldDispatchScan /\ UNCHANGED <<pending, tvars, pvars>>
    \/ ShouldDispatchReturn /\ UNCHANGED <<pending, tvars, pvars>>
    \/ ScanPanic /\ UNCHANGED <<pending, tvars, pvars>>
    \/ CheckAndDispatchRun /\ UNCHANGED <<tvars, pvars>>
    \/ Recurse /\ UNCHANGED <<pending, tvars, pvars>>
    \/ SpawnSysCommand /\ UNCHANGED <<pending, tvars, pvars>>
    \/ (\E w \in inflight, ok \in BOOLEAN : RunSysCommand(w, ok))
          /\ UNCHANGED <<pending, tvars, pvars>>
    \/ WatchNext /\ UNCHANGED <<pending, tvars, pvars>>
    \/ (\E f \in Files, t \in StatResults : Modify(f, t))
          /\ UNCHANGED <<tvars, pvars>>

SpecWatch == InitWatch /\ [][NextWatch]_vars

\* ------------------------------------------- ParseCommandLine on its own
InitTok ==
    /\ command \in Commands
    /\ splitCmd = NoSplit
    /\ pcT = "input"
    /\ options = DefaultOptions
    /\ ExecIdle
    /\ RunsIdle
    /\ ParserIdle

\* a caller splits the command string
Tokenize ==
    /\ pcT = "input"
    /\ splitCmd' = ParseCommandLine(command)
    /\ pcT' = "done"
    /\ UNCHANGED <<command, evars, rvars, pvars>>

NextTok == Tokenize

SpecTok == InitTok /\ [][NextTok]_vars

\* ------------------------------------- NewParser, Bootstrap, then dispatch
ParserOptions ==
    [Force : {FALSE}, Watch : {FALSE}, Quiet : BOOLEAN, ClearCache : BOOLEAN]

InitParser ==
    /\ doc \in Docs
    /\ confMtime = 0
    /\ clock = 0
    /\ cache = NoCache
    /\ parserString = EmptyString
    /\ p = BlankParser
    /\ env = NoEnv
    /\ pcP = "new"
    /\ did = {}
    /\ cache0 = NoCache
    /\ child = NoEnv
    /\ options \in ParserOptions
    /\ ExecIdle
    /\ RunsIdle
    /\ TokIdle

\* NewParser: remove a temp file that must go, return the blank parser if
\* none is left, else read it and decode it into the parser
NewParser ==
    /\ pcP = "new"
    /\ LET shell == [BlankParser EXCEPT !.config = doc]
           clear == shouldClearCache(cache, options, confMtime)
           left == IF clear THEN NoCache ELSE cache
       IN /\ cache0' = cache
          /\ cache' = left
          /\ IF ~left.exists
               THEN /\ p' = shell
                    /\ parserString' = parserString
                    /\ did' = IF clear THEN {"remove"} ELSE {}
               ELSE /\ p' = GOBDeserialize(left.content, shell)
                    /\ parserString' = left.content
                    /\ did' = {"deserialize"}
    /\ pcP' = "constructed"
    /\ UNCHANGED <<doc, confMtime, clock, env, child, options, xvars, rvars,
                   tvars>>

\* log.Fatal unless quiet
Fatal(err, quiet) == err /\ ~quiet

\* Bootstrap: nothing when NewParser read a temp file; else the global
\* pass, the task pass, and the parser is encoded and written
Bootstrap ==
    /\ pcP = "constructed"
    /\ IF parserString # EmptyString
         THEN /\ pcP' = "ready"
              /\ UNCHANGED <<p, env, cache, did>>
         ELSE \E og \in Orders(p.config.genv), ot \in Orders(p.config.tenv) :
                LET g == parseGlobal(p, og, env)
                    t == parseTasks(g.p, ot, g.env)
                IN  IF Fatal(g.err, options.Quiet) THEN
                        /\ pcP' = "exited"
                        /\ p' = g.p
                        /\ env' = g.env
                        /\ did' = did \cup g.fx
                        /\ cache' = cache
                    ELSE IF Fatal(t.err, options.Quiet) THEN
                        /\ pcP' = "exited"
                        /\ p' = t.p
                        /\ env' = t.env
                        /\ did' = did \cup g.fx \cup t.fx
                        /\ cache' = cache
                    ELSE
                        /\ pcP' = "ready"
                        /\ p' = t.p
                        /\ env' = t.env
                        /\ did' = did \cup g.fx \cup t.fx \cup {"write"}
                        /\ cache' = [exists |-> TRUE,
                                     content |-> GOBSerialize(t.p),
                                     mtime |-> clock]
    /\ UNCHANGED <<doc, confMtime, clock, parserString, cache0, child,
                   options, xvars, rvars, tvars>>

\* Start for the default task: mustExist exits for a task the parser does
\* not hold, else the task's command is run as a child process, which is
\* given the environment of this process
Dispatch ==
    /\ pcP = "ready"
    /\ IF DefaultTask \in DOMAIN p.Tasks
         THEN /\ pcP' = "spawned"
              /\ child' = env
         ELSE /\ pcP' = "exited"
              /\ child' = child
    /\ UNCHANGED <<doc, confMtime, clock, cache, parserString, p, env, did,
                   cache0, options, xvars, rvars, tvars>>

\* the process is over and goke is started again in the same directory
NextRun ==
    /\ pcP \in {"spawned", "exited"}
    /\ pcP' = "new"
    /\ options' \in ParserOptions
    /\ parserString' = EmptyString
    /\ p' = BlankParser
    /\ env' = NoEnv
    /\ did' = {}
    /\ child' = NoEnv
    /\ UNCHANGED <<doc, confMtime, clock, cache, cache0, xvars, rvars,
                   tvars>>

\* a second passes between two runs
Tick ==
    /\ pcP = "new"
    /\ clock < MaxTime
    /\ clock' = clock + 1
    /\ UNCHANGED <<doc, confMtime, cache, parserString, p, env, pcP, did,
                   cache0, child, options, xvars, rvars, tvars>>

\* the config file is saved between two runs
TouchConfig ==
    /\ pcP = "new"
    /\ confMtime # clock
    /\ confMtime' = clock
    /\ UNCHANGED <<doc, clock, cache, parserString, p, env, pcP, did,
                   cache0, child, options, xvars, rvars, tvars>>

NextParser ==
    \/ NewParser
    \/ Bootstrap
    \/ Dispatch
    \/ NextRun
    \/ Tick
    \/ TouchConfig

SpecParser == InitParser /\ [][NextParser]_vars

\* ===================================================================
\* Properties
\* ===================================================================
TraceCmds == [k \in 1..Len(trace) |-> trace[k].cmd]

FileSet == SeqRange(TaskFiles)

\* checkAndDispatch has returned to execute / watch
Returned == pc = "returned" /\ task # ""

\* the modification times of the decision: some declared file is newer
\* than its stored timestamp
ChangedAtScan == \E f \in FileSet : seen[f] # NoFile /\ lock0[f] < seen[f]

AllStatable == \A f \in FileSet : seen[f] # NoFile

\* C1: a dispatch in which a command failed leaves the stored timestamps
\* of the task's files as they were before the dispatch.
C1_FailedDispatchKeepsCache ==
    (Returned /\ dispatched /\ ret.err # Nil /\ FileSet # {})
        => \A f \in FileSet : lock[f] = lock0[f]

\* no hook entry and no run entry of the dispatched task names a task
NoTaskRefs ==
    \A c \in SeqRange(cfg.Events.BeforeEachTask) \cup
             SeqRange(cfg.Events.BeforeEachRun) \cup
             SeqRange(cfg.Events.AfterEachRun) \cup
             SeqRange(cfg.Events.AfterEachTask) \cup
             SeqRange(cfg.Tasks[task].Run) : c \notin DOMAIN cfg.Tasks

RECURSIVE AroundEach(_)
AroundEach(run) ==
    IF run = <<>> THEN <<>>
    ELSE cfg.Events.BeforeEachRun \o <<Head(run)>> \o cfg.Events.AfterEachRun
         \o AroundEach(Tail(run))

ExpectedOrder ==
    cfg.Events.BeforeEachTask \o AroundEach(cfg.Tasks[task].Run)
    \o cfg.Events.AfterEachTask

\* C2: a top-level dispatch in which every command succeeded and no entry
\* names a task has executed exactly: the before_each_task hooks, then per
\* run command the before_each_run hooks, the command, the after_each_run
\* hooks, then the after_each_task hooks.
C2_HookOrdering ==
    (Returned /\ dispatched /\ ret.err = Nil /\ NoTaskRefs)
        => TraceCmds = ExpectedOrder

C2_Witness ==
    /\ Returned /\ dispatched /\ ret.err = Nil /\ NoTaskRefs
    /\ TraceCmds = <<"T1", "B", "C1", "A", "B", "C2", "A", "T2">>

\* C3: every command started by a nested dispatch (a dispatchTask call
\* below the first) is one of the nested task's own run commands; no hook
\* is executed by a nested call.
C3_NestedRunsNoHooks ==
    \A k \in 1..Len(trace) : trace[k].depth > 1 => trace[k].ph = "main"

\* C4: once a command has delivered an error no further command is
\* started, nothing is left in flight, every dispatchTask call has
\* returned and checkAndDispatch returned that same error.
C4_AbortOnFirstFailure ==
    firstErr # Nil =>
        /\ firstErr.at = Len(trace)
        /\ inflight = {}
        /\ stack = <<>>
        /\ pc \notin {"run", "recv"}
        /\ ret = [did |-> FALSE, err |-> firstErr]

\* a command of a nested task failed while the callers still had commands
C4_Witness ==
    /\ firstErr # Nil
    /\ trace[firstErr.at].depth = 2
    /\ trace[firstErr.at].cmd = "S1"
    /\ Returned

\* C5: with no files the decision is true whatever the cache holds; with
\* files that can all be stat'd it is true exactly when some file's stored
\* timestamp (0 without an entry) is below its modification time.
C5_DecisionFunction ==
    pc \in {"scanned", "decided"} =>
        /\ FileSet = {} => dispatch = NewRef(TRUE, Nil)
        /\ (FileSet # {} /\ AllStatable) =>
              /\ dispatch.err = Nil
              /\ dispatch.val = (\E f \in FileSet : lock0[f] < seen[f])

\* two files, none newer than stored, one of them at the zero timestamp
C5_Witness ==
    /\ pc = "scanned"
    /\ Len(TaskFiles) = 2
    /\ AllStatable
    /\ ~dispatch.val
    /\ lock0["f1"] = 0 /\ seen["f1"] = 0
    /\ lock0["f2"] > seen["f2"]

\* C6 as stated: the commands are run exactly when the task has no files,
\* or a declared file is newer than its stored timestamp, or force is set;
\* otherwise nothing runs and "not dispatched" is reported.
C6_DispatchIff ==
    Returned =>
        /\ dispatched <=> (FileSet = {} \/ ChangedAtScan \/ options.Force)
        /\ ~dispatched => (trace = <<>> /\ ~ret.did)

\* C6 amended: the same, for decisions in which every declared file can be
\* stat'd.
C6_DispatchIffStatable ==
    (Returned /\ AllStatable) =>
        /\ dispatched <=> (FileSet = {} \/ ChangedAtScan \/ options.Force)
        /\ ~dispatched => (trace = <<>> /\ ret = [did |-> FALSE, err |-> Nil])

\* forced dispatch of a task none of whose files changed
C6_Witness ==
    /\ Returned /\ AllStatable /\ FileSet # {}
    /\ ~ChangedAtScan /\ options.Force /\ dispatched /\ trace # <<>>

\* C7: after a successful dispatch of a task with files, forced or not,
\* the stored timestamp of each file is the modification time the file had
\* when the program last stat'd it.
C7_CacheEqualsMtimeAfterSuccess ==
    (Returned /\ dispatched /\ ret.err = Nil)
        => \A f \in FileSet : seen[f] # NoFile => lock[f] = seen[f]

\* the scan reaches a file it cannot stat: no file before it is newer
\* than its stored timestamp
StatFailureAt(k) ==
    /\ seen[TaskFiles[k]] = NoFile
    /\ \A j \in 1..(k - 1) :
          /\ seen[TaskFiles[j]] # NoFile
          /\ ~(lock0[TaskFiles[j]] < seen[TaskFiles[j]])

InCycle == pc \in {"decided", "run", "recv", "returned"} /\ task # ""

\* C8 as stated: if any declared file cannot be stat'd the decision ends
\* with an error, no command is run and the cache is not modified, force
\* set or not.
C8_StatFailureAborts ==
    (InCycle /\ ~AllStatable) =>
        /\ dispatch.err.kind = "stat"
        /\ ~dispatched /\ trace = <<>>
        /\ lock = lock0

\* C8 amended: if the scan reaches a file that cannot be stat'd, the
\* decision ends with the error for that path, dispatchTask is not called,
\* no command is run, the cache is not modified and checkAndDispatch
\* returns that error, force set or not.
C8_ReachedStatFailureAborts ==
    \A k \in 1..Len(TaskFiles) :
        (InCycle /\ StatFailureAt(k)) =>
            /\ dispatch = NewRef(FALSE, StatErr(TaskFiles[k]))
            /\ ~dispatched /\ trace = <<>>
            /\ lock = lock0
            /\ pc = "returned" =>
                  ret = [did |-> FALSE, err |-> StatErr(TaskFiles[k])]

\* force is set and the second declared file cannot be stat'd
C8_Witness ==
    /\ Returned /\ options.Force
    /\ Len(TaskFiles) = 2 /\ StatFailureAt(2)
    /\ ret.err = StatErr("f2")

\* C9: at most one OS command is in flight and, while one is, the caller
\* is blocked on the receive of its result.
C9_OneCommandAtATime ==
    /\ Cardinality(inflight) <= 1
    /\ inflight # {} => pc = "recv"

\* watch mode, a second command of the iteration in flight
C9_Witness ==
    /\ options.Watch /\ inflight # {} /\ Len(trace) >= 2

\* C10: in watch mode, once the loop is entered the process does not end.
C10_WatchLoopNeverEnds ==
    (options.Watch /\ task # "") => exit = "running"

\* an unknown task name was requested: Start has run and resolved no task
UnknownTask == pc # "start" /\ task = ""

\* the single run is over: os.Exit, a crash, or Start returned
RunOver == ~options.Watch /\ pc \in {"exited", "done"}

\* C11: in single-run mode, quiet or not: an unknown task name ends the
\* process with status 1 before any command is started and before the cache
\* is touched; a failed decision or dispatch ends it with a non-zero
\* status; status 0 comes only from "nothing to run", and "nothing to run"
\* ends with status 0.
C11_ExitSemantics ==
    /\ UnknownTask =>
          /\ pc = "exited" /\ exit = "exit1"
          /\ trace = <<>> /\ ~dispatched /\ lock = lock0
    /\ (RunOver /\ ~UnknownTask /\ (ret.err # Nil \/ dispatch.err # Nil))
          => exit \in {"exit1", "panic"}
    /\ exit = "exit0" => (~dispatched /\ ret = [did |-> FALSE, err |-> Nil])
    /\ (RunOver /\ ~UnknownTask /\ dispatch.err = Nil /\ ~dispatched)
          => exit = "exit0"

\* quiet mode: "nothing to run" ended the process with status 0
C11_Witness ==
    /\ options.Quiet /\ RunOver /\ ~UnknownTask
    /\ FileSet # {} /\ ~dispatched /\ exit = "exit0"

\* C17: a worker that has delivered its one result has stopped: the scan
\* routine is never found past its send with code still to run.
C17_WorkerStopsAfterSend == scanner # "afterSend"

\* C18: a dispatch ends as Success or Failed: no chain of nested
\* dispatchTask calls grows until the call stack is exhausted.
C18_DispatchTerminates == dispatched => exit # "overflow"

\* a quote character opens a quoted section that the rest of the string
\* never closes; q is the open quote ("" outside quotes), esc says that
\* the character before was an unquoted backslash
RECURSIVE QuoteLeftOpen(_, _, _)
QuoteLeftOpen(str, q, esc) ==
    IF str = <<>> THEN q # ""
    ELSE IF q # "" THEN
        QuoteLeftOpen(Tail(str), IF Head(str) = q THEN "" ELSE q, FALSE)
    ELSE IF esc THEN QuoteLeftOpen(Tail(str), "", FALSE)
    ELSE IF Head(str) = "\\" THEN QuoteLeftOpen(Tail(str), "", TRUE)
    ELSE IF Head(str) \in {"\"", "'"} THEN
        QuoteLeftOpen(Tail(str), Head(str), FALSE)
    ELSE QuoteLeftOpen(Tail(str), "", FALSE)

\* C15: ParseCommandLine fails exactly when a quote is opened and never
\* closed, and echo "a b" c is split into echo, a b, c.
C15_TokenizerErrorIffUnclosed ==
    pcT = "done" =>
        /\ splitCmd.err <=> QuoteLeftOpen(command, "", FALSE)
        /\ command = Example =>
              splitCmd.args = << <<"e", "c", "h", "o">>, <<"a", " ", "b">>,
                                 <<"c">> >>

\* ------------------------------------------------------------- the parser
\* the value resolves: it is literal, or its command line splits and the
\* command succeeds
Resolves(v) ==
    \/ v.cmd = ""
    \/ /\ ~ParseCommandLine(Bytes(v.cmd)).err
       /\ ~Output(ParseCommandLine(Bytes(v.cmd)).args).err

\* what a value that resolves resolves to
Resolved(v) ==
    IF v.cmd = "" THEN v.text
    ELSE TrimSpace(Output(ParseCommandLine(Bytes(v.cmd)).args).out)

GlobalPassOK(d) == d.yamlOK /\ \A k \in DOMAIN d.genv : Resolves(d.genv[k])
TaskPassOK(d) == d.yamlOK /\ \A k \in DOMAIN d.tenv : Resolves(d.tenv[k])

\* this run parsed the config
Fresh == "parseGlobal" \in did
\* Bootstrap returned to main
BootstrapReturned == pcP \in {"ready", "spawned"}
\* Bootstrap has run, to its end or to log.Fatal
BootstrapActed == pcP \in {"ready", "spawned", "exited"}

\* C12: when the parse of this run failed, Bootstrap does not return to
\* main, in quiet mode and otherwise, so nothing is dispatched.
C12_FailedParseAbortsStartup ==
    (Fresh /\ ~(GlobalPassOK(doc) /\ TaskPassOK(doc))) => ~BootstrapReturned

\* C20: a temp file exists only if the global pass and the task pass of
\* the parse that wrote it both succeeded.
C20_CacheOnlyFromSuccessfulParse ==
    cache.exists => (GlobalPassOK(doc) /\ TaskPassOK(doc))

\* NewParser found a temp file and had to remove it
MustClear == options.ClearCache \/ cache0.mtime < confMtime
\* NewParser left no temp file
NoneLeft == ~cache0.exists \/ MustClear
\* Bootstrap ends in log.Fatal: not quiet, and the YAML is malformed or a
\* task env command fails (parseGlobal reports no environment error)
Aborts == ~options.Quiet /\ ~TaskPassOK(doc)

\* NewParser removes an existing temp file iff a clear was asked for or
\* the file is older than the config
C13_RemovedIffStale ==
    (pcP = "constructed" /\ cache0.exists) => (~cache.exists <=> MustClear)
\* a temp file that is left is decoded into the parser and Bootstrap does
\* nothing more
C13_HitSkipsParsing ==
    (pcP # "new" /\ ~NoneLeft) =>
        /\ did = {"deserialize"}
        /\ cache = cache0
        /\ Exported(p) = cache0.content.gob

\* C13 as stated: the temp file is removed iff stale or clear asked; a
\* temp file left is decoded and Bootstrap parses and writes nothing; with
\* none left Bootstrap does the full parse and then writes the temp file.
C13_CacheValidity ==
    /\ C13_RemovedIffStale
    /\ C13_HitSkipsParsing
    /\ (BootstrapActed /\ Fresh) =>
          /\ {"parseGlobal", "parseTasks", "write"} \subseteq did
          /\ cache.exists

\* C13 amended: as stated, but with none left Bootstrap writes the temp
\* file unless it ended in log.Fatal, and then it writes nothing.
C13_CacheValidityUnlessFatal ==
    /\ C13_RemovedIffStale
    /\ C13_HitSkipsParsing
    /\ (pcP # "new" /\ pcP # "constructed" /\ NoneLeft) =>
          /\ Fresh
          /\ IF Aborts
               THEN "write" \notin did /\ ~cache.exists
               ELSE /\ {"parseGlobal", "parseTasks", "write"} \subseteq did
                    /\ cache = [exists |-> TRUE, content |-> GOBSerialize(p),
                                mtime |-> clock]

\* a temp file older than the config was removed and written again
C13_Witness ==
    /\ pcP = "ready"
    /\ cache0.exists /\ ~options.ClearCache /\ cache0.mtime < confMtime
    /\ "write" \in did /\ cache.mtime = clock

\* C14 as stated, for a config whose global environment resolves and whose
\* task declares no env: the child is given every global environment entry
\* with its resolved value, in a run that parsed and in a run that loaded
\* the temp file.
C14_GlobalEnvAtSpawn ==
    (pcP = "spawned" /\ GlobalPassOK(doc) /\ DOMAIN doc.tenv = {}) =>
        \A k \in DOMAIN doc.genv : child[k] = Resolved(doc.genv[k])

\* C14 amended: in a run that parsed the config and whose global
\* environment resolved, the child is given every global environment entry
\* with its resolved value unless a task env entry of that name replaced
\* it; in a run that loaded the temp file goke has set none of them.
C14_GlobalEnvAtSpawnWhenParsed ==
    pcP = "spawned" =>
        IF Fresh
        THEN GlobalPassOK(doc) =>
               \A k \in DOMAIN doc.genv :
                  child[k] = IF k \in DOMAIN doc.tenv /\ Resolves(doc.tenv[k])
                             THEN Resolved(doc.tenv[k])
                             ELSE Resolved(doc.genv[k])
        ELSE child = NoEnv

\* a child spawned after a parse, with a command's output in FOO
C14_Witness ==
    /\ pcP = "spawned" /\ Fresh
    /\ DOMAIN doc.genv = Names /\ doc.genv["FOO"] = CmdOk
    /\ child["FOO"] = "out"

\* the run entry and the file list the parser holds for the task
RunHeld == p.Tasks[DefaultTask].Run[1]
FilesHeld == p.Tasks[DefaultTask].Files
\* C16: the $( ) token of a run entry and of a file pattern is replaced by
\* the trimmed output of the command it holds.
C16_TokenIsCommandOutput ==
    (BootstrapReturned /\ DefaultTask \in DOMAIN p.Tasks) =>
        /\ RunHeld = replaceByCommandOutput(doc.run, env)
        /\ FilesHeld = expandFilePaths(replaceByCommandOutput(doc.file, env))

\* C19: a task with a declared file modified since the task was last
\* dispatched is decided 'dispatch', whatever other tasks were decided or
\* dispatched in between.
C19_ModifiedMeansDispatch ==
    (pc = "decided" /\ task \in pending) =>
        (dispatch.err = Nil /\ dispatch.val)

\* the watched task has declared files and was dispatched by an earlier
\* iteration, and none of its files has been modified since
Quiescent == TaskFiles # <<>> /\ task \notin pending

====
